---- MODULE Spec2Model ----
(***************************************************************************)
(* Model of go/vt/worker/instance.go: the vtworker Instance, which admits  *)
(* at most one Worker at a time (setAndStartWorker), runs it on its own    *)
(* goroutine, records its outcome, and reacts to SIGTERM/SIGINT            *)
(* (InstallSignalHandlers).                                                *)
(*                                                                         *)
(* Threads of the model:                                                   *)
(*   - one call of setAndStartWorker per Worker object (call w),           *)
(*   - the goroutine spawned at line 88 for an admitted Worker (job w),    *)
(*   - the goroutine spawned at line 109 (the signal listener),            *)
(*   - the reset/cancel requests of the command layer, which are not part  *)
(*     of instance.go and are modelled from the specification text.        *)
(* currentWorkerMutex is explicit.  A step is a run of statements of one   *)
(* thread; the critical sections of lines 68-102 and 94-98 are cut where   *)
(* the guarded fields are in an intermediate combination.                  *)
(***************************************************************************)
EXTENDS Integers, Sequences, FiniteSets, TLC

\* ---------------------------------------------------------------- bounds
\* Number of setAndStartWorker calls ever issued (each with a new Worker).
MaxCalls == 2

\* ---------------------------------------------------------------- values
Workers == 1..MaxCalls
\* nil for the reference fields (Worker, MemoryLogger, Context, CancelFunc, chan)
Nil == 0
\* the error values a Worker's Run can return; "nil" is Go's nil error
RunErrors == {"nil", "E1"}
NoErr == "nil"
\* the error setAndStartWorker returns at line 71
AlreadyRunning == "A worker is already in progress"
\* wr arguments: the Instance's own wrangler wi.wr, or one built by the caller
Wranglers == {"default", "custom"}

\* holders of currentWorkerMutex
Free == <<"free", 0>>
ByAdmit(w) == <<"admit", w>>
ByJob(w) == <<"job", w>>

VARIABLES
    mutex,                \* holder of wi.currentWorkerMutex
    currentWorker,        \* wi.currentWorker: Nil or a Worker
    currentMemoryLogger,  \* wi.currentMemoryLogger: Nil or a MemoryLogger
    currentContext,       \* wi.currentContext: Nil or a Context
    currentCancelFunc,    \* wi.currentCancelFunc: Nil or the CancelFunc of a Context
    lastRunError,         \* wi.lastRunError
    callPc,               \* position of the setAndStartWorker call for Worker w
    callWr,               \* its wr argument
    issuedIdle,           \* whether it was issued while currentWorker was nil
    ret,                  \* return value [done, err] of the call that holds the mutex
    sawState,             \* state of the Instance that call found at line 70
    jobPc,                \* position of the goroutine of line 88 for Worker w
    jobCtx,               \* the Context that goroutine passed to Run (line 91)
    runErr,               \* err of line 91
    jobDone,              \* the channel `done` captured by that goroutine
    bookkept,             \* how many times lines 95-97 ran for Worker w
    nextCall,             \* next Worker object to be created by a caller
    closeCount,           \* closeCount[c]: how many times channel c was closed
    ctxCancelled,         \* ctxCancelled[x]: Context x has been cancelled
    wrLogger,             \* wrLogger[wr]: the logger installed on wrangler wr
    memLog,               \* memLog[m]: the Workers whose output MemoryLogger m holds
    sigPc,                \* position of the goroutine of line 109
    sigChan,              \* number of signals buffered in sigChan (capacity 1)
    exited,               \* os.Exit was called
    exitCode,             \* its argument
    admittedSinceIdle     \* Workers admitted since the Instance was last Idle

fields == <<currentWorker, currentMemoryLogger, currentContext, currentCancelFunc, lastRunError>>
callVars == <<callPc, callWr, issuedIdle, ret, sawState, nextCall>>
jobVars == <<jobPc, jobCtx, runErr, jobDone, bookkept>>
logVars == <<wrLogger, memLog>>
sigVars == <<sigPc, sigChan>>
exitVars == <<exited, exitCode>>
vars == <<mutex, fields, callVars, jobVars, closeCount, ctxCancelled, logVars, sigVars, exitVars, admittedSinceIdle>>

\* ---------------------------------------------------------------- loggers
\* A logger is a chain of tees: mems lists the MemoryLoggers it writes to,
\* outermost first, and base is the logger at the end of the chain.
ConsoleLogger == [mems |-> <<>>, base |-> "console"]
CallerLogger == [mems |-> <<>>, base |-> "caller"]
NewTeeLogger(m, l) == [mems |-> <<m>> \o l.mems, base |-> l.base]
TeeDepth(l) == Len(l.mems)
MemsOf(l) == {l.mems[i] : i \in 1..Len(l.mems)}

\* ---------------------------------------------------------------- states of the Instance
\* the three states of the comment at lines 30-37
Idle == currentWorker = Nil /\ currentCancelFunc = Nil /\ currentContext = Nil /\ lastRunError = NoErr
Running == currentWorker # Nil /\ currentCancelFunc # Nil /\ currentContext # Nil /\ lastRunError = NoErr
Completed == currentWorker # Nil /\ currentCancelFunc = Nil /\ currentContext = Nil
StateName == IF currentWorker = Nil THEN "Idle" ELSE IF currentCancelFunc # Nil THEN "Running" ELSE "Completed"

Alive == ~exited

NoRes == [done |-> Nil, err |-> "none"]

Init ==
    /\ mutex = Free
    /\ currentWorker = Nil
    /\ currentMemoryLogger = Nil
    /\ currentContext = Nil
    /\ currentCancelFunc = Nil
    /\ lastRunError = NoErr
    /\ callPc = [w \in Workers |-> "none"]
    /\ callWr = [w \in Workers |-> "default"]
    /\ issuedIdle = [w \in Workers |-> FALSE]
    /\ ret = NoRes
    /\ sawState = "none"
    /\ jobPc = [w \in Workers |-> "none"]
    /\ jobCtx = [w \in Workers |-> Nil]
    /\ runErr = [w \in Workers |-> NoErr]
    /\ jobDone = [w \in Workers |-> Nil]
    /\ bookkept = [w \in Workers |-> 0]
    /\ nextCall = 1
    /\ closeCount = [c \in Workers |-> 0]
    /\ ctxCancelled = [x \in Workers |-> FALSE]
    /\ wrLogger = [wr \in Wranglers |-> IF wr = "default" THEN ConsoleLogger ELSE CallerLogger]
    /\ memLog = [m \in Workers |-> {}]
    /\ sigPc = "none"
    /\ sigChan = 0
    /\ exited = FALSE
    /\ exitCode = -1        \* no exit code while the process runs
    /\ admittedSinceIdle = 0

\* ---------------------------------------------------------------- setAndStartWorker
\* A caller creates Worker w and calls setAndStartWorker(w, wr).
AdmitCall(wr) ==
    /\ Alive
    /\ nextCall <= MaxCalls
    /\ callPc' = [callPc EXCEPT ![nextCall] = "lock"]
    /\ callWr' = [callWr EXCEPT ![nextCall] = wr]
    /\ issuedIdle' = [issuedIdle EXCEPT ![nextCall] = (currentWorker = Nil)]
    /\ nextCall' = nextCall + 1
    /\ UNCHANGED <<mutex, fields, ret, sawState, jobVars, closeCount, ctxCancelled, logVars,
                   sigVars, exitVars, admittedSinceIdle>>

AdmitHoldsTheMutexNot(w) == Free
\* lines 68-69: the call holds the mutex from line 68 until it returns
AdmitHoldsTheMutex(w) == ByAdmit(w)

AdmitRejectsOnlyWhileRunning == currentCancelFunc # Nil
AdmitRejectsNever == FALSE
\* line 70: the condition under which the call is refused
AdmitRejects == currentWorker # Nil

\* lines 68-72: Lock, and the test of currentWorker
AdmitCheck(w) ==
    /\ Alive
    /\ callPc[w] = "lock"
    /\ mutex = Free
    /\ mutex' = AdmitHoldsTheMutex(w)
    /\ sawState' = StateName
    /\ IF AdmitRejects
          THEN /\ ret' = [done |-> Nil, err |-> AlreadyRunning]
               /\ callPc' = [callPc EXCEPT ![w] = "unlock"]
          ELSE /\ callPc' = [callPc EXCEPT ![w] = "l74"]
               /\ UNCHANGED ret
    /\ UNCHANGED <<fields, callWr, issuedIdle, nextCall, jobVars, closeCount, ctxCancelled, logVars,
                   sigVars, exitVars, admittedSinceIdle>>

\* lines 74-75: the Worker and a new MemoryLogger (one per admitted Worker)
AdmitSetWorker(w) ==
    /\ Alive
    /\ callPc[w] = "l74"
    /\ mutex = AdmitHoldsTheMutex(w)
    /\ currentWorker' = w
    /\ currentMemoryLogger' = w
    /\ admittedSinceIdle' = admittedSinceIdle + 1
    /\ callPc' = [callPc EXCEPT ![w] = "l76"]
    /\ UNCHANGED <<mutex, currentContext, currentCancelFunc, lastRunError, callWr, issuedIdle,
                   ret, sawState, nextCall, jobVars, closeCount, ctxCancelled, logVars, sigVars,
                   exitVars>>

WranglerLoggerAsFound(wr) == wrLogger[wr]
\* lines 79-84: the second destination of the tee
WranglerLogger(wr) == IF wr = "default" THEN ConsoleLogger ELSE wrLogger[wr]

MakeChanShared(w) == 1
\* line 78: make(chan struct{}) returns a channel no one else holds; the
\* channel made by the call for Worker w is channel w
MakeChan(w) == w

\* lines 76-102: a new cancellable Context with its CancelFunc, lastRunError
\* = nil, done := make(chan struct{}), wr.SetLogger(NewTeeLogger(...)), the
\* go statement, and the return value
AdmitStart(w) ==
    /\ Alive
    /\ callPc[w] = "l76"
    /\ mutex = AdmitHoldsTheMutex(w)
    /\ currentContext' = w
    /\ currentCancelFunc' = w
    /\ ctxCancelled' = [ctxCancelled EXCEPT ![w] = FALSE]
    /\ lastRunError' = NoErr
    /\ jobDone' = [jobDone EXCEPT ![w] = MakeChan(w)]
    /\ wrLogger' = [wrLogger EXCEPT ![callWr[w]] =
                        NewTeeLogger(currentMemoryLogger, WranglerLogger(callWr[w]))]
    /\ jobPc' = [jobPc EXCEPT ![w] = "start"]
    /\ ret' = [done |-> MakeChan(w), err |-> NoErr]
    /\ callPc' = [callPc EXCEPT ![w] = "unlock"]
    /\ UNCHANGED <<mutex, currentWorker, currentMemoryLogger, callWr, issuedIdle, sawState,
                   nextCall, jobCtx, runErr, bookkept, closeCount, memLog, sigVars, exitVars,
                   admittedSinceIdle>>

UnlockedOnSuccessOnly(w) == IF ret.err = NoErr THEN Free ELSE mutex
\* line 69: the deferred Unlock runs on every return path
UnlockedOnReturn(w) == Free

\* line 69: the deferred Unlock, and the return to the caller
AdmitReturn(w) ==
    /\ Alive
    /\ callPc[w] = "unlock"
    /\ mutex = AdmitHoldsTheMutex(w)
    /\ mutex' = UnlockedOnReturn(w)
    /\ callPc' = [callPc EXCEPT ![w] = "returned"]
    /\ callWr' = [callWr EXCEPT ![w] = IF jobPc[w] = "none" THEN "default" ELSE @]
    /\ issuedIdle' = [issuedIdle EXCEPT ![w] = FALSE]
    /\ ret' = NoRes
    /\ sawState' = "none"
    /\ UNCHANGED <<fields, nextCall, jobVars, closeCount, ctxCancelled, logVars, sigVars, exitVars,
                   admittedSinceIdle>>

\* ---------------------------------------------------------------- the goroutine of line 88
MutexAtRunTaken(w) == ByJob(w)
\* lines 88-91: the goroutine calls Run without touching the mutex
MutexAtRun(w) == mutex

\* line 91: the argument of Run is read from wi.currentContext, without the mutex
JobStart(w) ==
    /\ Alive
    /\ jobPc[w] = "start"
    /\ jobCtx' = [jobCtx EXCEPT ![w] = currentContext]
    /\ jobPc' = [jobPc EXCEPT ![w] = "running"]
    /\ mutex' = MutexAtRun(w)
    /\ UNCHANGED <<fields, callVars, runErr, jobDone, bookkept, closeCount, ctxCancelled,
                   logVars, sigVars, exitVars, admittedSinceIdle>>

\* What Run writes through the logger l of its wrangler: a tee hands the
\* entry to every MemoryLogger of its chain.
Logged(w, l) == [m \in Workers |-> IF m \in MemsOf(l) THEN memLog[m] \cup {w} ELSE memLog[m]]

\* line 91: Run executes and returns e, whenever the Worker chooses to (it may
\* or may not have looked at its Context); while it ran it logged through the
\* logger of its wrangler, which it does not use afterwards.
JobRunReturns(w, e) ==
    /\ Alive
    /\ jobPc[w] = "running"
    /\ memLog' = Logged(w, wrLogger[callWr[w]])
    /\ callWr' = [callWr EXCEPT ![w] = "default"]
    /\ runErr' = [runErr EXCEPT ![w] = e]
    /\ jobPc' = [jobPc EXCEPT ![w] = "returned"]
    /\ UNCHANGED <<mutex, fields, callPc, issuedIdle, ret, sawState, nextCall, jobCtx, jobDone,
                   bookkept, closeCount, ctxCancelled, wrLogger, sigVars, exitVars,
                   admittedSinceIdle>>

JobHoldsTheMutexNot(w) == Free
\* lines 94-98: the goroutine holds the mutex from line 94 to line 98
JobHoldsTheMutex(w) == ByJob(w)

WorkerAfterRunCleared == Nil
\* lines 94-98: the bookkeeping has no assignment to wi.currentWorker
WorkerAfterRun == currentWorker

\* lines 94-96: Lock, currentContext = nil, currentCancelFunc = nil
JobClearContext(w) ==
    /\ Alive
    /\ jobPc[w] = "returned"
    /\ mutex = Free
    /\ mutex' = JobHoldsTheMutex(w)
    /\ currentContext' = Nil
    /\ currentCancelFunc' = Nil
    /\ currentWorker' = WorkerAfterRun
    /\ jobPc' = [jobPc EXCEPT ![w] = "l97"]
    /\ UNCHANGED <<currentMemoryLogger, lastRunError, callVars, jobCtx, runErr,
                   jobDone, bookkept, closeCount, ctxCancelled, logVars, sigVars, exitVars, admittedSinceIdle>>

StoredErrorDropped(w) == lastRunError
\* line 97: the value assigned to wi.lastRunError
StoredError(w) == runErr[w]

\* lines 97-98: lastRunError = err, Unlock
JobStoreError(w) ==
    /\ Alive
    /\ jobPc[w] = "l97"
    /\ mutex = JobHoldsTheMutex(w)
    /\ lastRunError' = StoredError(w)
    /\ bookkept' = [bookkept EXCEPT ![w] = @ + 1]
    /\ mutex' = Free
    /\ jobPc' = [jobPc EXCEPT ![w] = "l99"]
    /\ UNCHANGED <<currentWorker, currentMemoryLogger, currentContext, currentCancelFunc,
                   callVars, jobCtx, runErr, jobDone, closeCount, ctxCancelled, logVars, sigVars,
                   exitVars, admittedSinceIdle>>

JobCloseBeforeBookkeeping(w) ==
    /\ Alive
    /\ jobPc[w] = "returned"
    /\ closeCount[jobDone[w]] = 0
    /\ closeCount' = [closeCount EXCEPT ![jobDone[w]] = @ + 1]
    /\ UNCHANGED <<mutex, fields, callVars, jobVars, ctxCancelled, logVars, sigVars, exitVars,
                   admittedSinceIdle>>

\* line 99: close(done), after which the goroutine ends
JobClose(w) ==
    /\ Alive
    /\ jobPc[w] = "l99"
    /\ closeCount' = [closeCount EXCEPT ![jobDone[w]] = @ + 1]
    /\ jobPc' = [jobPc EXCEPT ![w] = "finished"]
    /\ UNCHANGED <<mutex, fields, callVars, jobCtx, runErr, jobDone, bookkept,
                   ctxCancelled, logVars, sigVars, exitVars, admittedSinceIdle>>

\* ---------------------------------------------------------------- InstallSignalHandlers
\* lines 107-109: the channel, signal.Notify, and the go statement
InstallSignalHandlers ==
    /\ Alive
    /\ sigPc = "none"
    /\ sigPc' = "wait"
    /\ UNCHANGED <<mutex, fields, callVars, jobVars, closeCount, ctxCancelled, logVars, sigChan,
                   exitVars, admittedSinceIdle>>

\* The OS delivers SIGTERM or SIGINT: signal.Notify sends without blocking
\* on sigChan (capacity 1, line 107) and drops the signal when it is full.
Signal ==
    /\ Alive
    /\ sigPc # "none"
    /\ sigChan' = IF sigChan < 1 THEN sigChan + 1 ELSE sigChan
    /\ UNCHANGED <<mutex, fields, callVars, jobVars, closeCount, ctxCancelled, logVars, sigPc,
                   exitVars, admittedSinceIdle>>

\* line 110
SigReceive ==
    /\ Alive
    /\ sigPc = "wait"
    /\ sigChan > 0
    /\ sigChan' = sigChan - 1
    /\ sigPc' = "lock"
    /\ UNCHANGED <<mutex, fields, callVars, jobVars, closeCount, ctxCancelled, logVars, exitVars,
                   admittedSinceIdle>>

CallCancelFuncToggles(f) == [ctxCancelled EXCEPT ![f] = ~@]
\* lines 76, 115: calling the CancelFunc that context.WithCancel returned
\* cancels its Context; calling it again does nothing
CallCancelFunc(f) == [ctxCancelled EXCEPT ![f] = TRUE]

SigCancelClearsHandle == [cancelFunc |-> Nil, cancelled |-> CallCancelFunc(currentCancelFunc)]
\* line 115: wi.currentCancelFunc() cancels the Context it was made with
SigCancel == [cancelFunc |-> currentCancelFunc, cancelled |-> CallCancelFunc(currentCancelFunc)]

AfterSignalHandledWaitsAgain == "wait"
\* lines 109-120: the goroutine receives once, without a loop, and ends
\* when the handler returns
AfterSignalHandled == "finished"

SigCancelsWhenWorker == currentWorker # Nil
\* line 114: if wi.currentCancelFunc != nil
SigCancels == currentCancelFunc # Nil

\* lines 112-119, with the deferred Unlock of line 113: Lock, then either the
\* cancel function is called and the goroutine ends, or the process exits
SigHandle ==
    /\ Alive
    /\ sigPc = "lock"
    /\ mutex = Free
    /\ IF SigCancels
          THEN /\ ctxCancelled' = SigCancel.cancelled
               /\ currentCancelFunc' = SigCancel.cancelFunc
               /\ sigPc' = AfterSignalHandled
               /\ UNCHANGED exitVars
          ELSE /\ exited' = TRUE
               /\ exitCode' = 0
               /\ sigPc' = "exit"
               /\ UNCHANGED <<ctxCancelled, currentCancelFunc>>
    /\ UNCHANGED <<mutex, currentWorker, currentMemoryLogger, currentContext, lastRunError,
                   callVars, jobVars, closeCount, logVars, sigChan, admittedSinceIdle>>

\* ---------------------------------------------------------------- the command layer
\* Reset: refused while a Worker runs; otherwise back to the first state.
\* The whole request runs under the mutex.
Reset ==
    /\ Alive
    /\ mutex = Free
    /\ IF currentCancelFunc # Nil
          THEN UNCHANGED <<fields, admittedSinceIdle>>
          ELSE /\ currentWorker' = Nil
               /\ currentMemoryLogger' = Nil
               /\ lastRunError' = NoErr
               /\ admittedSinceIdle' = 0
               /\ UNCHANGED <<currentContext, currentCancelFunc>>
    /\ UNCHANGED <<mutex, callVars, jobVars, closeCount, ctxCancelled, logVars, sigVars, exitVars>>

\* Cancel: invokes the cancel handle if there is one, else does nothing.
Cancel ==
    /\ Alive
    /\ mutex = Free
    /\ ctxCancelled' = IF currentCancelFunc # Nil
                          THEN CallCancelFunc(currentCancelFunc)
                          ELSE ctxCancelled
    /\ UNCHANGED <<mutex, fields, callVars, jobVars, closeCount, logVars, sigVars, exitVars,
                   admittedSinceIdle>>

\* ---------------------------------------------------------------- specification
\* every step but the issue of a call
Steps ==
    \/ \E w \in Workers : AdmitCheck(w)
    \/ \E w \in Workers : AdmitSetWorker(w)
    \/ \E w \in Workers : AdmitStart(w)
    \/ \E w \in Workers : AdmitReturn(w)
    \/ \E w \in Workers : JobStart(w)
    \/ \E w \in Workers, e \in RunErrors : JobRunReturns(w, e)
    \/ \E w \in Workers : JobClearContext(w)
    \/ \E w \in Workers : JobStoreError(w)
    \/ \E w \in Workers : JobClose(w)
    \/ InstallSignalHandlers
    \/ Signal
    \/ SigReceive
    \/ SigHandle
    \/ Reset
    \/ Cancel

Next ==
    \/ \E wr \in Wranglers : AdmitCall(wr)
    \/ Steps

Spec == Init /\ [][Next]_vars

\* Scheduling: a goroutine that can run does run, and a goroutine that waits
\* in Lock gets the mutex if it is released again and again.  Callers, the
\* operating system and the Worker's Run are under no obligation.  At most
\* one goroutine is inside a critical section, at most one Worker is between
\* its spawn and its bookkeeping, so one condition covers each kind of step;
\* several goroutines can be at line 99 at once.
Fairness ==
    /\ WF_vars(\E w \in Workers :
                  AdmitSetWorker(w) \/ AdmitStart(w) \/ AdmitReturn(w) \/ JobStoreError(w))
    /\ WF_vars(\E w \in Workers : JobStart(w))
    /\ SF_vars(\E w \in Workers : JobClearContext(w))
    /\ \A w \in Workers : WF_vars(JobClose(w))

\* The behaviours in which every call passes the Instance's own wrangler.
\* The wr argument only selects the logger that line 85 replaces; no guard of
\* any step reads a logger, so the order of steps does not depend on it.
LiveNext ==
    \/ AdmitCall("default")
    \/ Steps

LiveSpec == Init /\ [][LiveNext]_vars /\ Fairness

\* Scheduling of the goroutines that wait in Lock at line 68 and at line 112:
\* they get the mutex if it is released again and again.  Run is still under
\* no obligation to return.
LockFairness ==
    /\ Fairness
    /\ SF_vars(\E w \in Workers : AdmitCheck(w))
    /\ SF_vars(SigHandle)

LockSpec == Init /\ [][LiveNext]_vars /\ LockFairness

\* ================================================================ claims
Rejected == [done |-> Nil, err |-> AlreadyRunning]
\* the goroutine of Worker w exists and has not yet done the bookkeeping of lines 95-97
InFlight(w) == jobPc[w] \in {"start", "running", "returned", "l97"}
\* Run of Worker w has returned
RunReturned(w) == jobPc[w] \in {"returned", "l97", "l99", "finished"}
\* the channel of Worker w has been closed
Closed(w) == jobDone[w] # Nil /\ closeCount[jobDone[w]] > 0
\* the call for Worker w is about to return (its return value is decided)
Returning(w) == callPc[w] = "unlock"

\* C1 - single flight: at every moment at most one admitted Worker has a
\* goroutine that is between its spawn (line 88) and the end of its completion
\* bookkeeping (line 97), whatever calls, completions, resets and signals
\* have happened.
C1_SingleFlight == Cardinality({w \in Workers : InFlight(w)}) <= 1

\* C1 witness: a Worker is executing Run while the goroutine of an earlier
\* Worker (completed, then reset) still exists.
C1_Witness ==
    \E w1, w2 \in Workers : w1 # w2 /\ jobPc[w1] = "running" /\ jobPc[w2] = "l99"

\* C2 - of the calls that reach line 70 between two Idle states exactly one
\* is admitted: the call that finds the Instance Idle succeeds (a channel,
\* nil error) and installs itself, a call that does not returns the
\* already-running error and another Worker holds the slot; at most one call
\* is past line 70 at a time, and never are two Workers admitted without the
\* Instance having been Idle in between.  In particular a call that was issued
\* while the Instance was Idle and is refused has lost to exactly one winner.
C2_OneWinner ==
    /\ admittedSinceIdle <= 1
    /\ Cardinality({w \in Workers : callPc[w] \in {"l74", "l76", "unlock"}}) <= 1
    /\ \A w \in Workers : Returning(w) =>
          IF sawState = "Idle"
             THEN ret = [done |-> jobDone[w], err |-> NoErr] /\ ret.done # Nil /\ currentWorker = w
             ELSE ret = Rejected /\ currentWorker \notin {Nil, w}
    /\ \A w \in Workers : (Returning(w) /\ issuedIdle[w] /\ ret = Rejected) => admittedSinceIdle = 1

\* C2 witness: a call issued while the Instance was Idle is refused, because a
\* concurrent call won; the winner's goroutine has not even started Run.
C2_Witness ==
    \E w \in Workers :
        /\ Returning(w) /\ issuedIdle[w] /\ ret = Rejected
        /\ currentWorker # Nil /\ jobPc[currentWorker] = "start"

\* what a call that is refused leaves alone
RefusedFrame == UNCHANGED <<fields, jobVars, closeCount, ctxCancelled, logVars>>

\* C3 - a call that reaches line 70 while a Worker is Running returns the
\* error and a nil channel, spawns no goroutine, and neither its test nor its
\* return changes currentWorker, currentMemoryLogger, currentContext,
\* currentCancelFunc or lastRunError.
C3_RejectedWhileRunning ==
    /\ [](\A w \in Workers : (Returning(w) /\ sawState = "Running") =>
              (ret = Rejected /\ jobPc[w] = "none" /\ jobDone[w] = Nil /\ Running))
    /\ [][\A w \in Workers :
              /\ (callPc[w] = "lock" /\ callPc'[w] # "lock" /\ StateName = "Running")
                    => (callPc'[w] = "unlock" /\ ret' = Rejected /\ RefusedFrame)
              /\ (Returning(w) /\ sawState = "Running" /\ callPc'[w] # "unlock")
                    => (callPc'[w] = "returned" /\ RefusedFrame)]_vars

\* C3 witness: a refused call is about to return while the Worker it met runs.
C3_Witness ==
    \E w \in Workers :
        Returning(w) /\ sawState = "Running" /\ ret = Rejected /\ jobPc[currentWorker] = "running"

\* the three states as a reader that holds the mutex sees them
IdleSeen == Idle /\ currentMemoryLogger = Nil
RunningSeen ==
    /\ Running
    /\ currentCancelFunc = currentWorker /\ currentContext = currentWorker
    /\ jobPc[currentWorker] \in {"start", "running", "returned"}
CompletedSeen ==
    /\ Completed
    /\ lastRunError = runErr[currentWorker]
    /\ jobPc[currentWorker] \in {"l99", "finished"}

\* C4 - whenever the mutex is free the fields are in exactly one of the three
\* combinations: Idle (no Worker, no cancel function, nil error), Running
\* (Worker set, its cancel function set, nil error, Run not yet accounted
\* for) or Completed (Worker set, no cancel function, lastRunError the value
\* its Run returned).
C4_ThreeStates ==
    mutex = Free =>
        /\ IdleSeen \/ RunningSeen \/ CompletedSeen
        /\ ~(IdleSeen /\ RunningSeen) /\ ~(IdleSeen /\ CompletedSeen) /\ ~(RunningSeen /\ CompletedSeen)

\* C4 witness: Completed with a non-nil error, seen with the mutex free, after
\* the goroutine has ended.
C4_Witness ==
    /\ mutex = Free /\ CompletedSeen /\ lastRunError = "E1"
    /\ jobPc[currentWorker] = "finished"

\* C5 - a call that reaches line 70 after a Worker has finished and before
\* any reset (currentWorker set, no cancel function) returns the error and
\* changes nothing; a call gets past line 72 only if it found the Instance Idle.
C5_RejectedWhenCompleted ==
    /\ [](\A w \in Workers :
              /\ (Returning(w) /\ sawState = "Completed") =>
                    (ret = Rejected /\ jobPc[w] = "none" /\ jobDone[w] = Nil /\ Completed)
              /\ (callPc[w] \in {"l74", "l76"} \/ (Returning(w) /\ ret.err = NoErr)) => sawState = "Idle")
    /\ [][\A w \in Workers :
              /\ (callPc[w] = "lock" /\ callPc'[w] # "lock" /\ StateName = "Completed")
                    => (callPc'[w] = "unlock" /\ ret' = Rejected /\ RefusedFrame)
              /\ (Returning(w) /\ sawState = "Completed" /\ callPc'[w] # "unlock")
                    => (callPc'[w] = "returned" /\ RefusedFrame)]_vars

\* C5 witness: a call refused in the Completed state of a Worker that failed.
C5_Witness ==
    \E w \in Workers :
        /\ Returning(w) /\ sawState = "Completed" /\ ret = Rejected
        /\ lastRunError = "E1" /\ jobPc[currentWorker] = "finished"

\* C6 as stated - after a Worker's Run returned an error E, E is stored and
\* a call that reaches line 70 in that Completed state is accepted.
C6_AcceptedAfterFailure ==
    /\ \A w \in Workers :
          (currentWorker = w /\ jobPc[w] \in {"l99", "finished"}) => lastRunError = runErr[w]
    /\ \A w \in Workers :
          (Returning(w) /\ sawState = "Completed" /\ lastRunError # NoErr)
              => (ret.err = NoErr /\ ret.done # Nil)

\* C6 amended - after a Worker's Run returned an error E, E is stored
\* verbatim as lastRunError and stays there as long as that Worker is the
\* current one; a call that reaches line 70 in that Completed state is
\* refused with the already-running error, exactly as after a success; a call
\* that finds the Instance Idle (after a reset) is accepted, also when an
\* earlier Worker failed.
C6_FailureStoredAdmissionFromIdle ==
    /\ \A w \in Workers :
          (currentWorker = w /\ jobPc[w] \in {"l99", "finished"}) => lastRunError = runErr[w]
    /\ \A w \in Workers :
          (Returning(w) /\ sawState = "Completed")
              => (ret = Rejected /\ lastRunError = runErr[currentWorker])
    /\ \A w \in Workers :
          (Returning(w) /\ sawState = "Idle") => (ret.err = NoErr /\ ret.done # Nil)

\* C6 witness: a call is refused in the Completed state of a Worker whose Run
\* returned E1, while that Worker's goroutine has not yet closed its channel.
C6_Witness ==
    \E w \in Workers :
        /\ Returning(w) /\ sawState = "Completed" /\ ret = Rejected
        /\ runErr[currentWorker] = "E1" /\ lastRunError = "E1" /\ jobPc[currentWorker] = "l99"

\* C7 - the channel of an admitted Worker is closed only after lines 95-97
\* ran for it: in every state in which it is closed the bookkeeping of that
\* Worker is done, and as long as that Worker is the current one the cancel
\* function and the context are nil and lastRunError is what its Run returned.
C7_ClosedAfterBookkeeping ==
    \A w \in Workers :
        Closed(w) =>
            /\ bookkept[w] = 1
            /\ currentWorker = w =>
                  (currentCancelFunc = Nil /\ currentContext = Nil /\ lastRunError = runErr[w])

\* C7 witness: the channel of the current Worker is closed; its Run returned E1.
C7_Witness ==
    \E w \in Workers : Closed(w) /\ currentWorker = w /\ lastRunError = "E1" /\ mutex = Free

\* C8 - every admitted Worker has a channel of its own, closed exactly once,
\* by its own goroutine, when that goroutine ends; lines 95-97 run exactly
\* once per admitted Worker; a refused call has no channel and closes none.
C8_OneClosePerJob ==
    /\ \A c \in Workers :
          closeCount[c] = Cardinality({w \in Workers : jobDone[w] = c /\ jobPc[w] = "finished"})
    /\ \A c \in Workers : closeCount[c] <= 1
    /\ \A w1, w2 \in Workers : (w1 # w2 /\ jobDone[w1] # Nil) => jobDone[w1] # jobDone[w2]
    /\ \A w \in Workers :
          /\ bookkept[w] = (IF jobPc[w] \in {"l99", "finished"} THEN 1 ELSE 0)
          /\ jobPc[w] = "none" <=> jobDone[w] = Nil
          /\ (Returning(w) /\ ret = Rejected) => (ret.done = Nil /\ jobDone[w] = Nil)

\* C8 witness: two Workers ran one after the other; each channel is closed once.
C8_Witness ==
    \E w1, w2 \in Workers :
        /\ w1 # w2 /\ jobPc[w1] = "finished" /\ jobPc[w2] = "finished"
        /\ closeCount[jobDone[w1]] = 1 /\ closeCount[jobDone[w2]] = 1

\* C9 - under the scheduling of Fairness: once Run of an admitted Worker has
\* returned E (runErr), the Instance reaches Completed with lastRunError = E for that
\* Worker, whatever calls are refused and whatever cancellation arrives
\* meanwhile; and the Worker's channel gets closed, as long as the process
\* lives (os.Exit at line 118 ends it, which can happen only once Completed
\* has been reached).
C9_EventuallyCompleted ==
    /\ \A w \in Workers :
          (jobPc[w] = "returned")
              ~> (currentWorker = w /\ Completed /\ lastRunError = runErr[w] /\ mutex = Free)
    /\ \A w \in Workers :
          (jobPc[w] = "returned") ~> (Closed(w) \/ (exited /\ bookkept[w] = 1))

\* C9 witness: a Worker that was cancelled by a signal and returned E1 is
\* Completed with its channel closed, and another call has been refused.
C9_Witness ==
    \E w, v \in Workers :
        /\ Closed(w) /\ currentWorker = w /\ lastRunError = "E1" /\ ctxCancelled[w]
        /\ sigPc = "finished"
        /\ v # w /\ callPc[v] = "returned" /\ jobPc[v] = "none"

\* C10 - cancelling is only a request: a step that cancels a Context (the
\* signal handler's or the cancel request's) cancels the Context of the stored
\* cancel function and changes neither the guarded fields nor any goroutine
\* nor any channel; as long as Run of the current Worker has not returned the
\* Instance is Running, cancelled or not, and it is Completed only after Run
\* returned.
C10_CancelIsCooperative ==
    /\ [](\A w \in Workers :
              /\ jobPc[w] \in {"start", "running"} =>
                    (currentWorker = w /\ currentCancelFunc = w /\ lastRunError = NoErr /\ ~Closed(w))
              /\ (currentWorker = w /\ currentCancelFunc = Nil /\ callPc[w] \notin {"l74", "l76"})
                    => RunReturned(w))
    /\ [][/\ \A x \in Workers :
                (~ctxCancelled[x] /\ ctxCancelled'[x])
                    => (x = currentCancelFunc /\ UNCHANGED <<fields, jobVars, closeCount>>)
          /\ (sigPc = "lock" /\ sigPc' = "finished")
                => (ctxCancelled'[currentCancelFunc] /\ UNCHANGED <<fields, jobVars, closeCount>>)]_vars

\* C10 witness: the signal handler has cancelled the Context of a Worker whose
\* Run is still executing; the Instance is Running.
C10_Witness ==
    \E w \in Workers :
        ctxCancelled[w] /\ jobPc[w] = "running" /\ sigPc = "finished" /\ RunningSeen /\ mutex = Free

\* everything but the position of the signal listener
butSigPc == <<mutex, fields, callVars, jobVars, closeCount, ctxCancelled, logVars, sigChan, exitVars,
              admittedSinceIdle>>

C12_SignalCancelsOrExits ==
    /\ [][(sigPc = "lock" /\ sigPc' # sigPc) =>
              /\ mutex = Free
              /\ IF currentCancelFunc # Nil
                    THEN /\ RunningSeen
                         /\ ctxCancelled'[currentCancelFunc]
                         /\ ~exited' /\ sigPc' = "finished"
                    ELSE /\ IdleSeen \/ CompletedSeen
                         /\ exited' /\ exitCode' = 0 /\ sigPc' = "exit"]_vars
    /\ [][(exited' # exited) => (sigPc = "lock" /\ currentCancelFunc = Nil)]_vars

\* C12 witness: the process has exited with code 0 on a signal that found a
\* finished Worker, after a Worker was running.
C12_Witness ==
    /\ exited /\ exitCode = 0 /\ sigPc = "exit"
    /\ \E w \in Workers : currentWorker = w /\ jobPc[w] = "finished"

\* C13 - every read and every write of the five fields is made by a thread
\* that holds the mutex: the steps of an Admit call that read or write fields
\* (lines 70-77) are taken with the mutex held by that call; the steps of a
\* job thread that read or write fields (the read of currentContext at line
\* 91, the writes of lines 95-97) are taken with the mutex held by that job
\* thread, the first of the writes taking it as it starts; and any other step
\* that changes a field starts from a free mutex, which it takes for its
\* whole duration.
C13_LockDiscipline ==
    [][/\ \A w \in Workers :
            /\ (callPc[w] = "l74" /\ callPc'[w] = "l76") => mutex = ByAdmit(w)
            /\ (callPc[w] = "l76" /\ callPc'[w] = "unlock") => mutex = ByAdmit(w)
            /\ (callPc[w] = "lock" /\ callPc'[w] # "lock") => (mutex = Free /\ mutex' = ByAdmit(w))
            /\ (jobPc[w] = "start" /\ jobPc'[w] = "running") => mutex = ByJob(w)
            /\ (jobPc[w] = "returned" /\ jobPc'[w] = "l97") => (mutex = Free /\ mutex' = ByJob(w))
            /\ (jobPc[w] = "l97" /\ jobPc'[w] = "l99") => mutex = ByJob(w)
       /\ (fields' # fields) =>
            \/ mutex = Free
            \/ \E w \in Workers : mutex = ByAdmit(w) /\ callPc'[w] # callPc[w]
            \/ \E w \in Workers : mutex = ByJob(w) /\ jobPc'[w] # jobPc[w]]_vars

\* C14 - a job thread holds the mutex only for lines 94-98, never while its
\* Run executes, so under the scheduling of LockFairness, in which Run need
\* never return: every call of setAndStartWorker returns (or the process
\* exits), a signal handler that waits for the mutex gets it, and a held
\* mutex is always released again.
C14_RunOutsideTheMutex ==
    /\ [](\A w \in Workers : mutex = ByJob(w) => jobPc[w] = "l97")
    /\ \A w \in Workers : (callPc[w] = "lock") ~> (callPc[w] = "returned" \/ exited)
    /\ (sigPc = "lock") ~> (sigPc \in {"finished", "exit"})
    /\ (mutex # Free) ~> (mutex = Free)

\* C14 witness: while Run of an admitted Worker still executes, the call that
\* admitted it has returned, a second call has taken the mutex, was refused
\* and returned, and the signal handler has taken the mutex and cancelled.
C14_Witness ==
    \E w, v \in Workers :
        /\ jobPc[w] = "running" /\ callPc[w] = "returned" /\ currentWorker = w
        /\ v # w /\ callPc[v] = "returned" /\ jobPc[v] = "none"
        /\ sigPc = "finished" /\ mutex = Free

\* C15 - the memory log of a Worker receives only what was logged during
\* that Worker's own Run: every admission installs a MemoryLogger that is new
\* and empty, and no MemoryLogger ever holds an entry logged during the Run
\* of another Worker, whichever wranglers the calls pass.
C15_MemoryLogStable ==
    /\ [][\A w \in Workers :
            (callPc[w] = "l74" /\ callPc'[w] = "l76") =>
                /\ currentMemoryLogger' = w /\ currentMemoryLogger' # currentMemoryLogger
                /\ memLog[w] = {}]_vars
    /\ [](\A m \in Workers : memLog[m] \subseteq {m})

\* C16 - a reset of a Completed Instance gives Idle, and a call that then
\* takes the mutex is admitted; a reset while a Worker runs changes nothing.
\* The only step that clears currentWorker starts in Completed with the mutex
\* free and ends in Idle with the memory logger cleared, changing nothing
\* else; such a step is possible whenever a live Instance is Completed and
\* the mutex is free; a call that finds no Worker is admitted; and while a
\* cancel function is stored, a step that is not a step of the job thread
\* leaves all five fields as they are.
C16_ResetOnlyWhenNotRunning ==
    /\ [][(currentWorker # Nil /\ currentWorker' = Nil) =>
              /\ CompletedSeen /\ mutex = Free
              /\ Idle' /\ currentMemoryLogger' = Nil
              /\ UNCHANGED <<currentContext, currentCancelFunc, mutex, callVars, jobVars, closeCount,
                             ctxCancelled, logVars, sigVars, exitVars>>]_vars
    /\ []((Alive /\ Completed /\ mutex = Free) => ENABLED (Reset /\ currentWorker' = Nil))
    /\ [][\A w \in Workers :
            (callPc[w] = "lock" /\ callPc'[w] # "lock" /\ currentWorker = Nil) => callPc'[w] = "l74"]_vars
    /\ [][(currentCancelFunc # Nil /\ jobPc' = jobPc) => UNCHANGED fields]_vars

\* C16 witness: a first Worker failed and finished, the Instance was reset,
\* and a second Worker has been admitted and runs.
C16_Witness ==
    \E w, v \in Workers :
        /\ v # w /\ jobPc[w] = "finished" /\ runErr[w] = "E1"
        /\ currentWorker = v /\ currentMemoryLogger = v /\ Running /\ jobPc[v] = "running"
        /\ callPc[v] = "returned"

\* C17 - the bookkeeping of a finished Run (lines 94-98) changes, of the
\* five fields, only currentContext, currentCancelFunc and lastRunError: its
\* steps leave currentWorker and currentMemoryLogger (and the log collected in
\* it) as they are; a stored Worker always has the MemoryLogger installed at
\* its admission, and the two are changed only by a step outside every job
\* thread that clears both from Completed.
C17_BookkeepingKeepsWorkerAndLog ==
    /\ [][\A w \in Workers :
            (jobPc'[w] # jobPc[w] /\ jobPc[w] \in {"returned", "l97"}) =>
                /\ UNCHANGED <<currentWorker, currentMemoryLogger, memLog, wrLogger>>
                /\ currentWorker = w /\ currentMemoryLogger = w]_vars
    /\ [](currentWorker # Nil => currentMemoryLogger = currentWorker)
    /\ [][(currentWorker # Nil /\ <<currentWorker, currentMemoryLogger>>' # <<currentWorker, currentMemoryLogger>>) =>
              /\ jobPc' = jobPc /\ Completed
              /\ currentWorker' = Nil /\ currentMemoryLogger' = Nil]_vars

\* C17 witness: a Worker is Completed with its failure stored and its channel
\* closed, and it and the MemoryLogger that holds its log are still stored.
C17_Witness ==
    \E w \in Workers :
        /\ jobPc[w] = "finished" /\ bookkept[w] = 1 /\ lastRunError = "E1"
        /\ currentWorker = w /\ currentMemoryLogger = w /\ memLog[w] = {w}
        /\ currentContext = Nil /\ currentCancelFunc = Nil /\ callPc[w] = "returned"

\* C18 - the step of an admission that installs the logger (line 85) gives
\* the wrangler of the call a tee whose first destination is the new, still
\* empty MemoryLogger and whose second destination is the logger that
\* wrangler had, or a new console logger if the wrangler is the Instance's
\* own, and touches no other wrangler; so the logger of the Instance's own
\* wrangler is always the console logger or a tee of depth one over it.
C18_TeeOverWranglerLogger ==
    /\ [][\A w \in Workers :
            (callPc[w] = "l76" /\ callPc'[w] = "unlock") =>
                LET wr == callWr[w]
                    second == IF wr = "default" THEN [mems |-> <<>>, base |-> "console"]
                                                ELSE wrLogger[wr]
                IN  /\ currentMemoryLogger = w /\ memLog[w] = {}
                    /\ wrLogger'[wr].mems = <<w>> \o second.mems
                    /\ wrLogger'[wr].base = second.base
                    /\ \A o \in Wranglers \ {wr} : wrLogger'[o] = wrLogger[o]]_vars
    /\ [](TeeDepth(wrLogger["default"]) <= 1 /\ wrLogger["default"].base = "console")

\* C18 witness: a second Worker was admitted with the Instance's own
\* wrangler after a first one ran with it and logged; the installed logger
\* is the tee of the second MemoryLogger alone.
C18_Witness ==
    \E w, v \in Workers :
        /\ v # w /\ jobPc[w] = "finished" /\ memLog[w] = {w}
        /\ currentWorker = v /\ jobPc[v] = "start" /\ callWr[v] = "default"
        /\ wrLogger["default"] = [mems |-> <<v>>, base |-> "console"]
        /\ wrLogger["custom"] = CallerLogger

\* C19 - the Context a job thread passes to Run is the one its own admission
\* created at line 76, never nil and never that of another admission, although
\* line 91 reads the field without the mutex; and every step that cancels a
\* Context cancels the one of the stored cancel function, which belongs to
\* the stored Worker and is the Context that Worker's Run received or, if Run
\* has not been called yet, the Context it is going to receive.
C19_RunGetsItsOwnContext ==
    /\ [](\A w \in Workers : jobPc[w] \notin {"none", "start"} => jobCtx[w] = w)
    /\ [](\A w \in Workers : jobPc[w] = "start" => currentContext = w)
    /\ [][\A x \in Workers :
            (ctxCancelled'[x] /\ ~ctxCancelled[x]) =>
                /\ currentCancelFunc = x /\ currentWorker = x
                /\ jobPc[x] \in {"start", "running", "returned"}
                /\ jobPc[x] = "start" \/ jobCtx[x] = x]_vars

\* C19 witness: after a first Worker ran with its own Context, a second one
\* received its own Context, which has been cancelled while its Run executes.
C19_Witness ==
    \E w, v \in Workers :
        /\ v # w /\ jobPc[w] = "finished" /\ jobCtx[w] = w /\ ~ctxCancelled[w]
        /\ jobPc[v] = "running" /\ jobCtx[v] = v /\ ctxCancelled[v] /\ currentCancelFunc = v

\* C20 - an installed listener handles one signal at most: its goroutine
\* never goes back from handling a signal to waiting for one, and once it
\* has handled a signal by cancelling, it stays ended and the process never
\* exits; a signal that arrives from then on is put into the channel, or
\* dropped, and changes nothing else - no Context is cancelled by it, whether
\* a Worker is running or not - and it is never taken out of the channel.
C20_OneSignalPerInstallation ==
    /\ [][(sigPc \in {"lock", "finished", "exit"}) => (sigPc' # "wait")]_vars
    /\ [][sigPc = "finished" =>
              /\ sigPc' = "finished" /\ UNCHANGED exitVars
              /\ sigChan' >= sigChan
              /\ sigChan' # sigChan =>
                    UNCHANGED <<mutex, fields, callVars, jobVars, closeCount, ctxCancelled, logVars,
                                admittedSinceIdle>>]_vars
    /\ [](sigPc = "finished" => ~exited)

\* C20 witness: the listener cancelled a running Worker on a first signal;
\* the Worker has finished, the Instance is Completed, a later signal sits in
\* the channel, and the process has not exited.
C20_Witness ==
    \E w \in Workers :
        /\ sigPc = "finished" /\ sigChan = 1 /\ ~exited
        /\ currentWorker = w /\ ctxCancelled[w] /\ jobPc[w] = "finished" /\ Completed
        /\ mutex = Free

====
